---- MODULE Spec2Model ----
(***************************************************************************)
(* Marker-selection state machine of the Canada provinces dashboard.       *)
(* The repository holds eight variants of one Dash application.  Each      *)
(* variant has a click callback (update_clicked_markers) that maintains    *)
(* the list kept in dcc.Store 'clicked-markers', and a map callback        *)
(* (update_map / update_province_map) that renders the POI markers of the  *)
(* selected provinces.  The model keeps one variable naming the variant    *)
(* that is running, and translates both callbacks of every variant.        *)
(*                                                                         *)
(* Python values:                                                          *)
(*   str            a sequence of one-character strings                    *)
(*   list           a sequence                                             *)
(*   value or None  a record [none |-> BOOLEAN, v |-> value]               *)
(***************************************************************************)
EXTENDS Naturals, Sequences, FiniteSets, TLC

VARIABLES variant, env, page, selection, clicked, figure, info, last, tables

vars == <<variant, env, page, selection, clicked, figure, info, last, tables>>

---------------------------------------------------------------------------
(* Bounds of the model.                                                    *)

\* Longest dropdown selection a session makes (single-session runs).
MaxSelected == 2
\* Longest 'clicked-markers' list a session builds (single-session runs).
MaxClicked == 2
\* The same two bounds when two sessions run side by side.
SharedMaxSelected == 1
SharedMaxClicked == 1

---------------------------------------------------------------------------
(* Python strings.                                                         *)

Range(f) == {f[i] : i \in DOMAIN f}

NoDup(l) == \A i, j \in DOMAIN l : l[i] = l[j] => i = j

\* x in l, for a list l
In(x, l) == \E i \in DOMAIN l : l[i] = x

\* [m for m in l if m != x]
RECURSIVE Without(_, _)
Without(l, x) ==
    IF l = <<>> THEN <<>>
    ELSE IF Head(l) = x THEN Without(Tail(l), x)
         ELSE <<Head(l)>> \o Without(Tail(l), x)

Digit(d) == CASE d = 0 -> "0" [] d = 1 -> "1" [] d = 2 -> "2" [] d = 3 -> "3"
              [] d = 4 -> "4" [] d = 5 -> "5" [] d = 6 -> "6" [] d = 7 -> "7"
              [] d = 8 -> "8" [] d = 9 -> "9"

\* str(n) for a row label n >= 0
RECURSIVE IntToStr(_)
IntToStr(n) == IF n < 10 THEN <<Digit(n)>>
               ELSE IntToStr(n \div 10) \o <<Digit(n % 10)>>

\* s[0] of a str: a str of one character (IndexError on the empty str)
StrIndex0(s) == <<s[1]>>

\* s.split('_')
RECURSIVE SplitAcc(_, _, _)
SplitAcc(s, cur, acc) ==
    IF s = <<>> THEN acc \o <<cur>>
    ELSE IF Head(s) = "_" THEN SplitAcc(Tail(s), <<>>, acc \o <<cur>>)
         ELSE SplitAcc(Tail(s), cur \o <<Head(s)>>, acc)

Split(s) == SplitAcc(s, <<>>, <<>>)

\* ', '.join(l)
RECURSIVE Join(_)
Join(l) == IF l = <<>> THEN <<>>
           ELSE IF Len(l) = 1 THEN l[1]
                ELSE l[1] \o <<",", " ">> \o Join(Tail(l))

Lower(c) == CASE c = "A" -> "a" [] c = "B" -> "b" [] c = "F" -> "f"
              [] c = "J" -> "j" [] c = "M" -> "m" [] c = "N" -> "n"
              [] c = "P" -> "p" [] c = "T" -> "t" [] c = "I" -> "i"
              [] c = "S" -> "s" [] c = "O" -> "o" [] OTHER -> c

\* s.lower()
LowerStr(s) == [i \in DOMAIN s |-> Lower(s[i])]

\* sub in s
Contains(s, sub) ==
    \E i \in 0..(Len(s) - Len(sub)) :
        \A j \in 1..Len(sub) : s[i + j] = sub[j]

None == [none |-> TRUE, v |-> <<>>]
Some(x) == [none |-> FALSE, v |-> x]

\* Python truth value of a list-or-None
Truthy(x) == ~x.none /\ x.v # <<>>

---------------------------------------------------------------------------
(* Static data: an excerpt of the tables of the source.                    *)

Alberta == <<"A","l","b","e","r","t","a">>
Manitoba == <<"M","a","n","i","t","o","b","a">>
BanffNP == <<"B","a","n","f","f"," ","N","P">>
JasperNP == <<"J","a","s","p","e","r"," ","N","P">>
TheForks == <<"T","h","e"," ","F","o","r","k","s">>
\* A dropdown value that names no province of any table.
Narnia == <<"N","a","r","n","i","a">>
\* A marker id of no POI ("Nonexistent_Place_99" of the scenario, shortened).
NonexistentId == <<"N","o","_","P","l","_","9">>

Variants == {"redtogreen", "optimized", "optimized-dash-app", "provinceszipped",
             "provinceszipped2", "ultraoptimized", "optimizedzipped",
             "optimizedzipped2"}

\* The shapeName values of the GeoJSON in data.zip (excerpt).
provinces == <<Alberta, Manitoba>>

\* Mutation of province_centroids: the entry of Manitoba is missing.
province_centroids_incomplete == <<Alberta>>

\* province_centroids of optimized-dash-app.py and ultraoptimized.py (keys).
province_centroids == <<Alberta, Manitoba>>

\* notable_places_data with the row label of each entry
\* (notable_df.index, the row.name of the marker id).
notable_places_data ==
    << [Province |-> Alberta,  Place |-> BanffNP,  name |-> 0],
       [Province |-> Manitoba, Place |-> TheForks, name |-> 10] >>

\* Mutation of row_marker_id: the id without the row label
\* (f"{row['Province']}_{row['Place']}").
row_marker_id_unlabelled(row) == row.Province \o <<"_">> \o row.Place

\* f"{row['Province']}_{row['Place']}_{row.name}"
row_marker_id(row) == row.Province \o <<"_">> \o row.Place \o <<"_">> \o IntToStr(row.name)

\* pd.DataFrame(data) with the marker_id column added: every entry of the
\* list becomes a row, whatever its Province
notable_df_of(data) ==
    [i \in DOMAIN data |->
        [Province |-> data[i].Province,
         Place |-> data[i].Place,
         marker_id |-> row_marker_id(data[i])]]

\* notable_df: notable_places_data with the marker_id column
notable_df == notable_df_of(notable_places_data)

\* load_poi_data of optimized.py: one row per entry of the dict, with the
\* marker_id of the entry, whatever the province key and the id
load_poi_data(coordinates) ==
    [i \in DOMAIN coordinates |->
        [Province |-> coordinates[i].Province,
         Place |-> coordinates[i].Place,
         marker_id |-> coordinates[i].marker_id]]

\* hardcoded_poi_coordinates flattened to rows, in the dict's order; the
\* marker_id of an entry is the literal of the source, "<Province>_<place>".
hardcoded_poi_coordinates ==
    << [Province |-> Alberta,  Place |-> BanffNP,
        marker_id |-> Alberta \o <<"_">> \o BanffNP],
       [Province |-> Manitoba, Place |-> TheForks,
        marker_id |-> Manitoba \o <<"_">> \o TheForks] >>

\* hardcoded_poi_coordinates of redtogreen.py: entries of Alberta only.
redtogreen_poi_coordinates ==
    << [Province |-> Alberta,  Place |-> BanffNP,
        marker_id |-> Alberta \o <<"_">> \o BanffNP],
       [Province |-> Alberta,  Place |-> JasperNP,
        marker_id |-> Alberta \o <<"_">> \o JasperNP] >>

\* province_to_places (excerpt)
province_to_places_keys == {Alberta, Manitoba}
province_to_places(prov) ==
    IF prov = Alberta THEN <<BanffNP, JasperNP>> ELSE <<TheForks>>

---------------------------------------------------------------------------
(* Click events.  clickData of dcc.Graph is None, or a dict; a click on a  *)
(* point gives {'points': [point]}; the point of a POI marker carries the  *)
(* marker's entry of the trace's customdata (the marker id, a str) and its *)
(* text; the point of a province shape or label carries no customdata.     *)

NoClick == [kind |-> "None", hasCustom |-> FALSE, customdata |-> <<>>,
            hasText |-> FALSE, text |-> <<>>]
\* a dict without the key 'points'
NoPoints == [kind |-> "dict", hasCustom |-> FALSE, customdata |-> <<>>,
             hasText |-> FALSE, text |-> <<>>]
ProvincePoint(p) == [kind |-> "point", hasCustom |-> FALSE, customdata |-> <<>>,
                     hasText |-> TRUE, text |-> p]
MarkerPoint(id, place) == [kind |-> "point", hasCustom |-> TRUE, customdata |-> id,
                           hasText |-> TRUE, text |-> place]

\* clickData and 'points' in clickData
HasPoints(clickData) == clickData.kind = "point"

\* What a callback leaves behind: err (it raised), ret (the value returned
\* for 'clicked-markers'), arg (the content of the list object received as
\* current_clicked when the callback ends), info (the 'clicked-info' text,
\* optimized-dash-app.py only).
NoInfo == [kind |-> "none", text |-> <<>>]
Raised(cur) == [err |-> TRUE, ret |-> cur, arg |-> cur, info |-> NoInfo]
Returned(ret, cur) == [err |-> FALSE, ret |-> ret, arg |-> cur, info |-> NoInfo]

\* Mutation of AddOnlyIndex0_update_clicked_markers: a click without a
\* marker returns a new empty list (return []).
AddOnlyIndex0_update_clicked_markers_emptying(clickData, current_clicked) ==
    IF HasPoints(clickData) /\ clickData.hasCustom
    THEN IF clickData.customdata = <<>> THEN Raised(current_clicked)
         ELSE LET marker_id == StrIndex0(clickData.customdata) IN
              IF current_clicked.none THEN Raised(current_clicked)
              ELSE IF ~In(marker_id, current_clicked.v)
                   THEN Returned(Some(current_clicked.v \o <<marker_id>>), current_clicked)
                   ELSE Returned(current_clicked, current_clicked)
    ELSE Returned(Some(<<>>), current_clicked)

\* redtogreen.py and provinceszipped2.py: marker_id = point['customdata'][0],
\* append when absent, no removal.
AddOnlyIndex0_update_clicked_markers(clickData, current_clicked) ==
    IF HasPoints(clickData) /\ clickData.hasCustom
    THEN IF clickData.customdata = <<>> THEN Raised(current_clicked)
         ELSE LET marker_id == StrIndex0(clickData.customdata) IN
              IF current_clicked.none THEN Raised(current_clicked)
              ELSE IF ~In(marker_id, current_clicked.v)
                   THEN Returned(Some(current_clicked.v \o <<marker_id>>), current_clicked)
                   ELSE Returned(current_clicked, current_clicked)
    ELSE Returned(current_clicked, current_clicked)

redtogreen_update_clicked_markers(clickData, current_clicked) ==
    AddOnlyIndex0_update_clicked_markers(clickData, current_clicked)

provinceszipped2_update_clicked_markers(clickData, current_clicked) ==
    AddOnlyIndex0_update_clicked_markers(clickData, current_clicked)

\* Mutation of AddOnly_update_clicked_markers: the id is appended without
\* the test 'marker_id not in current_clicked'.
AddOnly_update_clicked_markers_untested(clickData, current_clicked) ==
    IF HasPoints(clickData) /\ clickData.hasCustom
    THEN IF current_clicked.none THEN Raised(current_clicked)
         ELSE Returned(Some(current_clicked.v \o <<clickData.customdata>>),
                       current_clicked)
    ELSE Returned(current_clicked, current_clicked)

\* provinceszipped.py and optimizedzipped.py: marker_id = point['customdata'],
\* append when absent, no removal.
AddOnly_update_clicked_markers(clickData, current_clicked) ==
    IF HasPoints(clickData) /\ clickData.hasCustom
    THEN LET marker_id == clickData.customdata IN
         IF current_clicked.none THEN Raised(current_clicked)
         ELSE IF ~In(marker_id, current_clicked.v)
              THEN Returned(Some(current_clicked.v \o <<marker_id>>), current_clicked)
              ELSE Returned(current_clicked, current_clicked)
    ELSE Returned(current_clicked, current_clicked)

provinceszipped_update_clicked_markers(clickData, current_clicked) ==
    AddOnly_update_clicked_markers(clickData, current_clicked)

optimizedzipped_update_clicked_markers(clickData, current_clicked) ==
    AddOnly_update_clicked_markers(clickData, current_clicked)

\* Mutation of optimized_update_clicked_markers: the removal branch returns
\* the list as it was.
optimized_update_clicked_markers_no_removal(clickData, current_clicked) ==
    IF ~HasPoints(clickData) THEN Returned(current_clicked, current_clicked)
    ELSE IF ~clickData.hasCustom THEN Returned(current_clicked, current_clicked)
    ELSE LET marker_id == clickData.customdata IN
         IF current_clicked.none THEN Raised(current_clicked)
         ELSE IF In(marker_id, current_clicked.v)
              THEN Returned(current_clicked, current_clicked)
              ELSE Returned(Some(current_clicked.v \o <<marker_id>>), current_clicked)

\* optimized.py
optimized_update_clicked_markers(clickData, current_clicked) ==
    IF ~HasPoints(clickData) THEN Returned(current_clicked, current_clicked)
    ELSE IF ~clickData.hasCustom THEN Returned(current_clicked, current_clicked)
    ELSE LET marker_id == clickData.customdata IN
         IF current_clicked.none THEN Raised(current_clicked)
         ELSE IF In(marker_id, current_clicked.v)
              THEN Returned(Some(Without(current_clicked.v, marker_id)), current_clicked)
              ELSE Returned(Some(current_clicked.v \o <<marker_id>>), current_clicked)

\* Mutation of ultraoptimized_update_clicked_markers: a second click on a
\* marker empties the list (return []).
ultraoptimized_update_clicked_markers_clearing(clickData, current_clicked0) ==
    LET current_clicked == IF ~Truthy(current_clicked0) THEN Some(<<>>)
                           ELSE current_clicked0
    IN  IF HasPoints(clickData) /\ clickData.hasCustom
        THEN LET marker_id == clickData.customdata IN
             IF ~In(marker_id, current_clicked.v)
             THEN Returned(Some(current_clicked.v \o <<marker_id>>), current_clicked0)
             ELSE Returned(Some(<<>>), current_clicked0)
        ELSE Returned(current_clicked, current_clicked0)

\* ultraoptimized.py
ultraoptimized_update_clicked_markers(clickData, current_clicked0) ==
    LET current_clicked == IF ~Truthy(current_clicked0) THEN Some(<<>>)
                           ELSE current_clicked0
    IN  IF HasPoints(clickData) /\ clickData.hasCustom
        THEN LET marker_id == clickData.customdata IN
             IF ~In(marker_id, current_clicked.v)
             THEN Returned(Some(current_clicked.v \o <<marker_id>>), current_clicked0)
             ELSE Returned(Some(Without(current_clicked.v, marker_id)), current_clicked0)
        ELSE Returned(current_clicked, current_clicked0)

\* optimizedzipped2.py
optimizedzipped2_update_clicked_markers(clickData, current_clicked) ==
    IF HasPoints(clickData) /\ clickData.hasCustom
    THEN LET marker_id == clickData.customdata IN
         IF current_clicked.none THEN Raised(current_clicked)
         ELSE IF ~In(marker_id, current_clicked.v)
              THEN Returned(Some(current_clicked.v \o <<marker_id>>), current_clicked)
              ELSE Returned(Some(Without(current_clicked.v, marker_id)), current_clicked)
    ELSE \* return current_clicked or []
         Returned(IF Truthy(current_clicked) THEN current_clicked ELSE Some(<<>>),
                  current_clicked)

\* Mutation of clicked_places: the first part of the id (parts[0], the
\* Province) is taken instead of the second.
RECURSIVE clicked_places_first_part(_)
clicked_places_first_part(current_clicked) ==
    IF current_clicked = <<>> THEN <<>>
    ELSE LET parts == Split(Head(current_clicked)) IN
         (IF Len(parts) >= 2 THEN <<parts[1]>> ELSE <<>>)
            \o clicked_places_first_part(Tail(current_clicked))

\* optimized-dash-app.py: the place part of every id of the list that has one
RECURSIVE clicked_places(_)
clicked_places(current_clicked) ==
    IF current_clicked = <<>> THEN <<>>
    ELSE LET parts == Split(Head(current_clicked)) IN
         (IF Len(parts) >= 2 THEN <<parts[2]>> ELSE <<>>)
            \o clicked_places(Tail(current_clicked))

\* optimized-dash-app.py; the append of the add branch acts on the list
\* object received when that list was non-empty.
optimized_dash_app_update_clicked_markers(clickData, current_clicked0) ==
    LET rebound == ~Truthy(current_clicked0)
        current_clicked == IF rebound THEN <<>> ELSE current_clicked0.v
        marked == HasPoints(clickData) /\ clickData.hasCustom
        marker_id == clickData.customdata
        place_name == IF clickData.hasText THEN clickData.text ELSE <<>>
        adds == marked /\ ~In(marker_id, current_clicked)
        after == IF ~marked THEN current_clicked
                 ELSE IF adds THEN current_clicked \o <<marker_id>>
                 ELSE Without(current_clicked, marker_id)
        info_text ==
            IF marked
            THEN IF adds THEN [kind |-> "Selected place: ", text |-> place_name]
                 ELSE [kind |-> "Deselected place: ", text |-> place_name]
            ELSE IF HasPoints(clickData) /\ clickData.hasText
                 THEN [kind |-> "Province: ", text |-> clickData.text]
                 ELSE [kind |-> "Click on markers to see more information.",
                       text |-> <<>>]
        places == clicked_places(after)
    IN  [err |-> FALSE,
         ret |-> Some(after),
         arg |-> IF adds /\ ~rebound THEN Some(after) ELSE current_clicked0,
         info |-> IF after # <<>> /\ places # <<>>
                  THEN [kind |-> "Selected places: ", text |-> Join(places)]
                  ELSE info_text]

\* The click callback of the variant that is running.
update_clicked_markers(v, clickData, current_clicked) ==
    CASE v = "redtogreen" -> redtogreen_update_clicked_markers(clickData, current_clicked)
      [] v = "optimized" -> optimized_update_clicked_markers(clickData, current_clicked)
      [] v = "optimized-dash-app" ->
            optimized_dash_app_update_clicked_markers(clickData, current_clicked)
      [] v = "provinceszipped" ->
            provinceszipped_update_clicked_markers(clickData, current_clicked)
      [] v = "provinceszipped2" ->
            provinceszipped2_update_clicked_markers(clickData, current_clicked)
      [] v = "ultraoptimized" ->
            ultraoptimized_update_clicked_markers(clickData, current_clicked)
      [] v = "optimizedzipped" ->
            optimizedzipped_update_clicked_markers(clickData, current_clicked)
      [] v = "optimizedzipped2" ->
            optimizedzipped2_update_clicked_markers(clickData, current_clicked)

---------------------------------------------------------------------------
(* The environment of a run.  load: whether data.zip and the province      *)
(* GeoJSON in it could be read ("ok") or not ("failed").  zWritable:       *)
(* whether plotly lets optimizedzipped.py assign into fig.data[0].z (the   *)
(* array a figure hands out may be read-only, and the assignment then      *)
(* raises).  reReadable: whether gpd.read_file of provinceszipped.py       *)
(* accepts json.dumps of the text kept in 'province-data' (it raises       *)
(* otherwise).  properties: the keys of feature['properties'] in the       *)
(* 'province-data' the map callback of provinceszipped.py receives.        *)

\* the keys of feature['properties'] in the 'province-data' that
\* load_initial_data returns: gdf.to_json() is taken after shapeName has
\* been renamed to Province
province_data_properties == {"Province"}

\* What reading the province GeoJSON out of data.zip may meet, for
\* optimizedzipped.py and optimizedzipped2.py: the file of the repository
\* ("ok"), no zip or no such member ("failed"), a member that is not JSON
\* ("invalid"), a FeatureCollection without features ("empty"), and
\* features whose properties hold neither shapeName nor another name
\* ("unnamed").
LoadOutcomes == {"ok", "failed", "invalid", "empty", "unnamed"}

Envs(v) ==
    CASE v \in {"optimized-dash-app", "ultraoptimized"} ->
            {[load |-> "ok", zWritable |-> TRUE, reReadable |-> TRUE,
              properties |-> province_data_properties]}
      [] v = "optimizedzipped" ->
            [load : LoadOutcomes, zWritable : BOOLEAN, reReadable : {TRUE},
             properties : {province_data_properties}]
      [] v = "optimizedzipped2" ->
            [load : LoadOutcomes, zWritable : {TRUE}, reReadable : {TRUE},
             properties : {province_data_properties}]
      [] v = "provinceszipped" ->
            {[load |-> "failed", zWritable |-> TRUE, reReadable |-> TRUE,
              properties |-> province_data_properties]}
            \cup [load : {"ok"}, zWritable : {TRUE}, reReadable : BOOLEAN,
                  properties : {province_data_properties}]
      [] OTHER -> [load : {"ok", "failed"}, zWritable : {TRUE}, reReadable : {TRUE},
                   properties : {province_data_properties}]

\* Two sessions side by side run where every file could be read.
SharedEnvs(v) == {e \in Envs(v) : e.load = "ok" /\ e.zWritable /\ e.reReadable}

\* load_success of optimized.py, unzipped (and a readable GeoJSON) of
\* provinceszipped*.py, a readable data.zip in redtogreen.py
load_success(e) == e.load = "ok"

\* Column names.
ProvinceColumn == <<"P","r","o","v","i","n","c","e">>
GeometryColumn == <<"g","e","o","m","e","t","r","y">>
ShapeNameColumn == <<"s","h","a","p","e","N","a","m","e">>
ShapeISOColumn == <<"s","h","a","p","e","I","S","O">>

\* A GeoDataFrame, as far as the loading reads it: its columns, and the
\* values (one per row) of the property column named key.
Frame(columns, key, values) == [columns |-> columns, key |-> key, values |-> values]

\* gdf.rename(columns={old: new})
rename(gdf, old, new) ==
    IF old \in gdf.columns
    THEN Frame((gdf.columns \ {old}) \cup {new},
               IF gdf.key = old THEN new ELSE gdf.key, gdf.values)
    ELSE gdf

\* gdf.empty
empty(gdf) == gdf.columns = {} \/ gdf.values = <<>>

\* The bytes of the member by outcome: whether they are JSON, and the
\* features, as the property that holds the name and the names.
GeoJSONOf(load) ==
    CASE load = "invalid" -> [valid |-> FALSE, property |-> ShapeNameColumn, names |-> <<>>]
      [] load = "empty" -> [valid |-> TRUE, property |-> ShapeNameColumn, names |-> <<>>]
      [] load = "unnamed" -> [valid |-> TRUE, property |-> ShapeISOColumn, names |-> provinces]
      [] OTHER -> [valid |-> TRUE, property |-> ShapeNameColumn, names |-> provinces]

\* extract_file_from_zip of optimizedzipped.py and optimizedzipped2.py
extract_file_from_zip(e) ==
    IF e.load = "failed" THEN None ELSE Some(GeoJSONOf(e.load))

\* gpd.GeoDataFrame.from_features: no feature gives a frame without columns
from_features(geojson_data) ==
    IF geojson_data.names = <<>> THEN Frame({}, geojson_data.property, <<>>)
    ELSE Frame({GeometryColumn, geojson_data.property}, geojson_data.property,
               geojson_data.names)

\* optimizedzipped.py load_and_simplify_geojson: json.loads, the geometry
\* column and gdf[['Province', 'geometry']] may raise, and the except
\* branch returns gpd.GeoDataFrame()
optimizedzipped_load_and_simplify_geojson(geojson_data) ==
    LET gdf == rename(from_features(geojson_data), ShapeNameColumn, ProvinceColumn)
    IN  IF \/ ~geojson_data.valid
           \/ GeometryColumn \notin gdf.columns
           \/ ProvinceColumn \notin gdf.columns
        THEN Frame({}, ProvinceColumn, <<>>)
        ELSE Frame({ProvinceColumn, GeometryColumn}, gdf.key, gdf.values)

\* 'name' in col.lower() or 'province' in col.lower()
name_like(col) ==
    \/ Contains(LowerStr(col), <<"n","a","m","e">>)
    \/ Contains(LowerStr(col), <<"p","r","o","v","i","n","c","e">>)

\* optimizedzipped2.py load_and_simplify_geojson: the except branch returns
\* an empty frame with the columns Province and geometry; a frame without
\* shapeName takes its first name-like column as Province, and is returned
\* as it is when it has none
optimizedzipped2_load_and_simplify_geojson(geojson_data) ==
    LET gdf == rename(from_features(geojson_data), ShapeNameColumn, ProvinceColumn)
        named == {col \in gdf.columns : name_like(col)}
        found == IF ProvinceColumn \notin gdf.columns /\ named # {}
                 THEN rename(gdf, CHOOSE col \in named : TRUE, ProvinceColumn)
                 ELSE gdf
    IN  IF ~geojson_data.valid \/ GeometryColumn \notin gdf.columns
        THEN Frame({ProvinceColumn, GeometryColumn}, ProvinceColumn, <<>>)
        ELSE IF ProvinceColumn \in found.columns
             THEN Frame({ProvinceColumn, GeometryColumn}, found.key, found.values)
             ELSE found

\* fallback_provinces of optimizedzipped2.py: list(province_to_places.keys())
fallback_provinces == <<Alberta, Manitoba>>

\* fallback_gdf of optimizedzipped2.py
fallback_gdf == Frame({ProvinceColumn, GeometryColumn}, ProvinceColumn, fallback_provinces)

\* The module-level code of a file, from the extraction to the layout:
\* whether it raised (gdf["Province"] of a frame without that column is a
\* KeyError), the province table gdf, and the values the dropdown offers.
Loaded(gdf) ==
    [err |-> ProvinceColumn \notin gdf.columns,
     gdf |-> gdf,
     options |-> IF gdf.key = ProvinceColumn THEN Range(gdf.values) ELSE {}]

\* optimizedzipped.py, module level
optimizedzipped_module(e) ==
    LET province_geojson_data == extract_file_from_zip(e) IN
    IF ~province_geojson_data.none
    THEN Loaded(optimizedzipped_load_and_simplify_geojson(province_geojson_data.v))
    ELSE Loaded(Frame({ProvinceColumn, GeometryColumn}, ProvinceColumn, <<>>))

\* optimizedzipped2.py, module level
optimizedzipped2_module(e) ==
    LET province_geojson_data == extract_file_from_zip(e) IN
    IF ~province_geojson_data.none
    THEN LET gdf == optimizedzipped2_load_and_simplify_geojson(province_geojson_data.v)
         IN  IF empty(gdf) THEN Loaded(fallback_gdf) ELSE Loaded(gdf)
    ELSE Loaded(fallback_gdf)

\* Whether importing the file raises: the server of that run never starts.
module_raised(v, e) ==
    CASE v = "optimizedzipped" -> optimizedzipped_module(e).err
      [] v = "optimizedzipped2" -> optimizedzipped2_module(e).err
      [] OTHER -> FALSE

\* gdf['Province'] of optimizedzipped.py: the loaded provinces, or none in
\* the empty fallback frame
optimizedzipped_gdf(e) == optimizedzipped_module(e).gdf.values

---------------------------------------------------------------------------
(* Figures.  A figure is what dcc.Graph shows: kind "map" (a map, with the *)
(* POI markers listed in trace order), kind "message" (a figure without    *)
(* data: 'Data loading failed', 'Error loading map', ...), or "unrendered" *)
(* before the first callback.  A marker is the customdata entry, the color *)
(* and the text of one point.                                              *)

Unrendered == [kind |-> "unrendered", markers |-> <<>>, regions |-> <<>>]
Message == [kind |-> "message", markers |-> <<>>, regions |-> <<>>]
Map(markers) == [kind |-> "map", markers |-> markers, regions |-> <<>>]

\* A map with the trace of province labels of optimized-dash-app.py and
\* ultraoptimized.py: regions lists, for every row of provinces_df, the
\* color and the opacity of its point (the other variants draw the provinces
\* as a choropleth and have no such trace: regions is <<>>).
LabelledMap(regions, markers) ==
    [kind |-> "map", markers |-> markers, regions |-> regions]

\* What the map callback leaves behind: err (it raised), fig (the figure
\* returned), matched (it ran the matching of places against points).
Drawn(fig) == [err |-> FALSE, fig |-> fig, matched |-> FALSE]
MapRaised == [err |-> TRUE, fig |-> Unrendered, matched |-> FALSE]

\* Mutation of Colored: 'green' if clicked_markers else 'red', the same
\* color for every row.
ColoredAlike(rows, clicked_markers, highlighted, default) ==
    [i \in DOMAIN rows |->
        [customdata |-> rows[i].marker_id,
         color |-> IF clicked_markers # <<>> THEN highlighted ELSE default,
         text |-> rows[i].Place]]

\* 'green' if marker_id in clicked_markers else 'red', for every row
Colored(rows, clicked_markers, highlighted, default) ==
    [i \in DOMAIN rows |->
        [customdata |-> rows[i].marker_id,
         color |-> IF In(rows[i].marker_id, clicked_markers)
                   THEN highlighted ELSE default,
         text |-> rows[i].Place]]

\* The module-level POI table the map callback of the running variant
\* reads: poi_df of optimized.py, notable_df, hardcoded_poi_coordinates.
poi_df == tables.poi

\* Mutation of IsIn: the rows of the first selected province only
\* (df["Province"] == selected_provinces[0]).
IsInFirst(df, selected_provinces) ==
    SelectSeq(df, LAMBDA row : row.Province = selected_provinces[1])

\* df[df["Province"].isin(selected_provinces)]
IsIn(df, selected_provinces) ==
    SelectSeq(df, LAMBDA row : In(row.Province, selected_provinces))

\* redtogreen.py update_map: every POI when nothing is selected
redtogreen_update_map(e, selected_provinces, clicked_markers) ==
    IF ~load_success(e) THEN Drawn(Message)
    ELSE LET shown == IF ~Truthy(selected_provinces) THEN poi_df
                      ELSE IsIn(poi_df, selected_provinces.v)
         IN  IF shown # <<>> /\ clicked_markers.none
             THEN Drawn(Message)   \* TypeError, caught by the except clause
             ELSE Drawn(Map(Colored(shown, clicked_markers.v, "green", "red")))

\* Mutation of optimized_update_province_map: the POI table is not
\* filtered while nothing is selected.
optimized_update_province_map_unfiltered(e, selected_provinces, clicked_markers) ==
    IF ~load_success(e) THEN Drawn(Message)
    ELSE LET filtered_poi == IF ~Truthy(selected_provinces)
                             THEN poi_df
                             ELSE IsIn(poi_df, selected_provinces.v)
         IN  IF filtered_poi = <<>> THEN Drawn(Map(<<>>))
             ELSE IF clicked_markers.none THEN MapRaised
             ELSE Drawn(Map(Colored(filtered_poi, clicked_markers.v, "green", "red")))

\* optimized.py update_province_map
optimized_update_province_map(e, selected_provinces, clicked_markers) ==
    IF ~load_success(e) THEN Drawn(Message)
    ELSE IF ~Truthy(selected_provinces) THEN Drawn(Map(<<>>))
    ELSE LET filtered_poi == IsIn(poi_df, selected_provinces.v) IN
         IF filtered_poi = <<>> THEN Drawn(Map(<<>>))
         ELSE IF clicked_markers.none THEN MapRaised
         ELSE Drawn(Map(Colored(filtered_poi, clicked_markers.v, "green", "red")))

\* Mutation of inline_update_map: every province label takes the
\* highlighted style as soon as something is selected
\* ('blue' if selected_provinces else 'lightgray').
inline_update_map_any_selected(selected_provinces0, clicked_markers0, highlighted, default, selected_color, unselected_color) ==
    LET selected_provinces == IF ~Truthy(selected_provinces0) THEN <<>>
                              ELSE selected_provinces0.v
        clicked_markers == IF ~Truthy(clicked_markers0) THEN <<>>
                           ELSE clicked_markers0.v
        regions == [i \in DOMAIN province_centroids |->
                       [Province |-> province_centroids[i],
                        color |-> IF selected_provinces # <<>>
                                  THEN selected_color ELSE unselected_color,
                        opacity |-> IF selected_provinces # <<>>
                                    THEN "0.8" ELSE "0.5"]]
    IN  IF selected_provinces # <<>>
        THEN Drawn(LabelledMap(regions,
                               Colored(IsIn(poi_df, selected_provinces),
                                       clicked_markers, highlighted, default)))
        ELSE Drawn(LabelledMap(regions, <<>>))

\* optimized-dash-app.py and ultraoptimized.py update_map: the trace of
\* province labels, styled by the selection, then the markers
inline_update_map(selected_provinces0, clicked_markers0, highlighted, default, selected_color, unselected_color) ==
    LET selected_provinces == IF ~Truthy(selected_provinces0) THEN <<>>
                              ELSE selected_provinces0.v
        clicked_markers == IF ~Truthy(clicked_markers0) THEN <<>>
                           ELSE clicked_markers0.v
        regions == [i \in DOMAIN province_centroids |->
                       [Province |-> province_centroids[i],
                        color |-> IF In(province_centroids[i], selected_provinces)
                                  THEN selected_color ELSE unselected_color,
                        opacity |-> IF In(province_centroids[i], selected_provinces)
                                    THEN "0.8" ELSE "0.5"]]
    IN  IF selected_provinces # <<>>
        THEN Drawn(LabelledMap(regions,
                               Colored(IsIn(poi_df, selected_provinces),
                                       clicked_markers, highlighted, default)))
        ELSE Drawn(LabelledMap(regions, <<>>))

optimized_dash_app_update_map(e, selected_provinces, clicked_markers) ==
    inline_update_map(selected_provinces, clicked_markers, "#33cc33", "#ff3333",
                      "#3366cc", "#cccccc")

ultraoptimized_update_map(e, selected_provinces, clicked_markers) ==
    inline_update_map(selected_provinces, clicked_markers, "green", "red",
                      "blue", "lightgray")

\* optimizedzipped.py update_map: fig.data[0].z[i] = 1 for a selected
\* province of gdf comes before the markers
optimizedzipped_update_map(e, selected_provinces0, clicked_markers) ==
    LET selected_provinces == IF ~Truthy(selected_provinces0) THEN <<>>
                              ELSE selected_provinces0.v
    IN  IF selected_provinces = <<>> THEN Drawn(Map(<<>>))
        ELSE IF ~e.zWritable
                /\ \E i \in DOMAIN optimizedzipped_gdf(e) :
                      In(optimizedzipped_gdf(e)[i], selected_provinces)
             THEN MapRaised
        ELSE LET marker_subset == IsIn(poi_df, selected_provinces) IN
             IF marker_subset = <<>> THEN Drawn(Map(<<>>))
             ELSE IF clicked_markers.none THEN MapRaised
             ELSE Drawn(Map(Colored(marker_subset, clicked_markers.v, "green", "red")))

\* optimizedzipped2.py update_map
optimizedzipped2_update_map(e, selected_provinces0, clicked_markers) ==
    LET selected_provinces == IF ~Truthy(selected_provinces0) THEN <<>>
                              ELSE selected_provinces0.v
    IN  IF selected_provinces = <<>> THEN Drawn(Map(<<>>))
        ELSE LET marker_subset == IsIn(poi_df, selected_provinces) IN
             IF marker_subset = <<>> THEN Drawn(Map(<<>>))
             ELSE IF clicked_markers.none THEN MapRaised
             ELSE Drawn(Map(Colored(marker_subset, clicked_markers.v, "green", "red")))

\* provinceszipped2.py: hardcoded_poi_coordinates.get(province, []) for each
\* selected province, in the order of the selection
RECURSIVE hardcoded_rows_of(_)
hardcoded_rows_of(selected_provinces) ==
    IF selected_provinces = <<>> THEN <<>>
    ELSE SelectSeq(poi_df,
                   LAMBDA row : row.Province = Head(selected_provinces))
         \o hardcoded_rows_of(Tail(selected_provinces))

\* provinceszipped2.py update_province_map; all_provinces is the State
\* 'province-list' (None until load_province_names has answered); every
\* marker is drawn with color='red'
provinceszipped2_update_province_map(e, selected_provinces, all_provinces) ==
    IF ~load_success(e) THEN Drawn(Message)
    ELSE IF ~Truthy(selected_provinces)
         THEN IF Truthy(all_provinces) THEN Drawn(Map(<<>>)) ELSE Drawn(Message)
    ELSE LET filtered_features ==
                 SelectSeq(provinces, LAMBDA p : In(p, selected_provinces.v))
             rows == hardcoded_rows_of(selected_provinces.v)
         IN  IF filtered_features # <<>>
             THEN Drawn(Map([i \in DOMAIN rows |->
                               [customdata |-> rows[i].marker_id,
                                color |-> "red",
                                text |-> rows[i].Place]]))
             ELSE Drawn(Message)

---------------------------------------------------------------------------
(* provinceszipped.py: the markers are matched on every call from the      *)
(* candidate points of the POI GeoJSON.                                    *)

\* points_gdf: candidate points (an excerpt standing for the POI file): the
\* name column (None when null) and the province whose polygon contains the
\* point (<<>> when none does).  Two of the points bear the name of one
\* place of Alberta and lie in Alberta.
points_gdf ==
    << [name |-> Some(<<"b","a","n","f","f"," ","n","p">>), within |-> Alberta],
       [name |-> Some(<<"T","h","e"," ","F","o","r","k","s","!">>), within |-> Manitoba],
       [name |-> Some(TheForks), within |-> Alberta],
       [name |-> None, within |-> Alberta],
       [name |-> Some(<<"B","A","N","F","F"," ","N","P">>), within |-> Alberta] >>

\* points_gdf["name"].str.contains(place, case=False, na=False)
name_contains(candidate, place) ==
    ~candidate.name.none /\ Contains(LowerStr(candidate.name.v), LowerStr(place))

\* Mutation of within_province: the geometry of the point is not tested.
within_province_unchecked(candidate, prov) == In(prov, provinces)

\* row.geometry.within(province_poly), province_poly the union of the
\* polygons of gdf whose Province is prov
within_province(candidate, prov) == candidate.within = prov /\ In(prov, provinces)

\* the row labels of points_gdf
points_gdf_index == [k \in DOMAIN points_gdf |-> k]

\* the rows appended for one place of one province; point (the row of
\* points_gdf) stands for the lat and lon copied from the point
place_rows(prov, place) ==
    LET matches == SelectSeq(points_gdf_index,
                             LAMBDA k : name_contains(points_gdf[k], place))
        inside == SelectSeq(matches, LAMBDA k : within_province(points_gdf[k], prov))
    IN  [i \in DOMAIN inside |->
            [Province |-> prov, Place |-> place, point |-> inside[i]]]

RECURSIVE province_rows(_, _)
province_rows(prov, places) ==
    IF places = <<>> THEN <<>>
    ELSE place_rows(prov, Head(places)) \o province_rows(prov, Tail(places))

\* The rows the loop over province_to_places[prov] appends for each
\* province: they depend on the data alone.
matched_rows ==
    [prov \in province_to_places_keys |->
        province_rows(prov, province_to_places(prov))]

\* filtered_rows of update_map
RECURSIVE filtered_rows(_)
filtered_rows(selected_provinces) ==
    IF selected_provinces = <<>> THEN <<>>
    ELSE matched_rows[Head(selected_provinces)]
         \o filtered_rows(Tail(selected_provinces))

\* marker_subset with its marker_id column: row.name is the position of the
\* row in filtered_rows
provinceszipped_marker_subset(selected_provinces) ==
    LET rows == filtered_rows(selected_provinces) IN
    [i \in DOMAIN rows |->
        [Province |-> rows[i].Province,
         Place |-> rows[i].Place,
         point |-> rows[i].point,
         marker_id |-> row_marker_id([Province |-> rows[i].Province,
                                      Place |-> rows[i].Place,
                                      name |-> i - 1])]]

\* provinceszipped.py update_map; data_loaded says that the States
\* 'province-data' and 'poi-data' hold what load_initial_data returned
provinceszipped_update_map(e, selected_provinces, clicked_markers, data_loaded) ==
    IF ~(data_loaded /\ load_success(e)) THEN Drawn(Message)
    ELSE IF ~e.reReadable THEN MapRaised   \* gpd.read_file(json.dumps(...))
    ELSE IF ~Truthy(selected_provinces) THEN Drawn(Map(<<>>))
    ELSE IF provinces # <<>> /\ "shapeName" \notin e.properties
         THEN MapRaised    \* KeyError: feat['properties']['shapeName']
    ELSE IF \E i \in DOMAIN selected_provinces.v :
                selected_provinces.v[i] \notin province_to_places_keys
         THEN [MapRaised EXCEPT !.matched = TRUE]  \* KeyError: province_to_places[prov]
    ELSE LET marker_subset == provinceszipped_marker_subset(selected_provinces.v) IN
         IF marker_subset = <<>> THEN [Drawn(Map(<<>>)) EXCEPT !.matched = TRUE]
         ELSE IF clicked_markers.none THEN [MapRaised EXCEPT !.matched = TRUE]
         ELSE [Drawn(Map(Colored(marker_subset, clicked_markers.v, "green", "red")))
                  EXCEPT !.matched = TRUE]

---------------------------------------------------------------------------
(* The callbacks as Dash wires them.                                       *)

\* The map callback of the variant that is running.  initial: the call of
\* the first round after page load, when the States filled by the loading
\* callbacks of provinceszipped*.py are still None.
update_map(v, e, selected_provinces, clicked_markers, initial) ==
    CASE v = "redtogreen" -> redtogreen_update_map(e, selected_provinces, clicked_markers)
      [] v = "optimized" ->
            optimized_update_province_map(e, selected_provinces, clicked_markers)
      [] v = "optimized-dash-app" ->
            optimized_dash_app_update_map(e, selected_provinces, clicked_markers)
      [] v = "provinceszipped" ->
            provinceszipped_update_map(e, selected_provinces, clicked_markers, ~initial)
      [] v = "provinceszipped2" ->
            provinceszipped2_update_province_map(e, selected_provinces,
                IF initial THEN None ELSE Some(provinces))
      [] v = "ultraoptimized" ->
            ultraoptimized_update_map(e, selected_provinces, clicked_markers)
      [] v = "optimizedzipped" ->
            optimizedzipped_update_map(e, selected_provinces, clicked_markers)
      [] v = "optimizedzipped2" ->
            optimizedzipped2_update_map(e, selected_provinces, clicked_markers)

\* Whether 'clicked-markers' is an Input of the map callback (it is a State
\* in provinceszipped.py and provinceszipped2.py, whose map callback runs on
\* a change of the dropdown only).
clicked_markers_is_input(v) == v \notin {"provinceszipped", "provinceszipped2"}

\* The rows of the POI table of a variant (provinceszipped.py: the rows
\* matched when every province is selected).
poi_rows(v) ==
    CASE v = "redtogreen" -> redtogreen_poi_coordinates
      [] v \in {"optimized", "provinceszipped2"} -> hardcoded_poi_coordinates
      [] v = "provinceszipped" -> provinceszipped_marker_subset(provinces)
      [] OTHER -> notable_df

\* The module-level tables of a variant after load: the POI table (poi_df,
\* notable_df, hardcoded_poi_coordinates) with its color column (<<>>: the
\* table has no such column) and the province table.
loaded_tables(v) == [poi |-> poi_rows(v), color |-> <<>>, provinces |-> provinces]

\* Mutation of optimized_tables_after: filtered_poi is poi_df itself when
\* every row passes the filter, and the color column is written into it.
optimized_tables_after_in_place(t, selected_provinces, clicked_markers) ==
    IF Truthy(selected_provinces) /\ ~clicked_markers.none
       /\ IsIn(t.poi, selected_provinces.v) # <<>>
    THEN [t EXCEPT !.color =
            [i \in DOMAIN t.poi |->
                IF In(t.poi[i].marker_id, clicked_markers.v) THEN "green" ELSE "red"]]
    ELSE t

\* optimized.py update_province_map, lines 244-251: filtered_poi is the new
\* frame that poi_df[mask] returns, and the color column is assigned to
\* that frame; poi_df keeps its columns.
optimized_tables_after(t, selected_provinces, clicked_markers) == t

\* The module-level tables after the map callback of a variant has run: no
\* variant assigns to them (optimizedzipped.py writes into the z array of
\* the figure it has just built, provinceszipped.py into the frame it has
\* just read).
tables_after(v, t, selected_provinces, clicked_markers) ==
    IF v = "optimized"
    THEN optimized_tables_after(t, selected_provinces, clicked_markers)
    ELSE t

\* Mutation of store_of: one module-level store for every session.
global_store(s) == 1

\* The store a session's callbacks read and write: dcc.Store and
\* dcc.Dropdown keep their value in the browser of the session, and every
\* callback request carries the values of its own page.
store_of(s) == s

---------------------------------------------------------------------------
(* Events.                                                                 *)

Sessions == DOMAIN page

Alone == Cardinality(Sessions) = 1

\* the duplicate-free lists over S of length n at most
RECURSIVE ListsUpTo(_, _)
ListsUpTo(S, n) ==
    IF n = 0 THEN {<<>>}
    ELSE LET shorter == ListsUpTo(S, n - 1) IN
         shorter \cup {l \o <<x>> : l \in shorter, x \in S}

\* The names a user picks in the dropdown; two sessions side by side pick
\* among the provinces of the tables.
DropdownNames == {Alberta, Manitoba, Narnia}
SharedDropdownNames == {Alberta, Manitoba}

DropdownValuesUpTo(S, n) == {Some(l) : l \in {x \in ListsUpTo(S, n) : NoDup(x)}}
DropdownValuesAlone == DropdownValuesUpTo(DropdownNames, MaxSelected)
DropdownValuesShared == DropdownValuesUpTo(SharedDropdownNames, SharedMaxSelected)

DropdownValues == IF Alone THEN DropdownValuesAlone ELSE DropdownValuesShared
MaxClickedNow == IF Alone THEN MaxClicked ELSE SharedMaxClicked

\* the point of the marker drawn for a row of a POI table
PointOf(row) == MarkerPoint(row.marker_id, row.Place)

\* The clicks of the model: a clickData without points, a click on a
\* province, on the marker of each POI of the variant, and one carrying the
\* id of no POI.
ClickDataOf ==
    [v \in Variants |->
        {NoPoints, ProvincePoint(Alberta), MarkerPoint(NonexistentId, <<>>)}
        \cup {PointOf(poi_rows(v)[i]) : i \in DOMAIN poi_rows(v)}]

\* Two sessions side by side click on the first and on the last marker.
SharedClickDataOf ==
    [v \in Variants |->
        {PointOf(poi_rows(v)[1]), PointOf(poi_rows(v)[Len(poi_rows(v))])}]

ClickDatas(v) == IF Alone THEN ClickDataOf[v] ELSE SharedClickDataOf[v]

InitialInfo(v) ==
    IF v = "optimized-dash-app"
    THEN [kind |-> "Click on markers to see more information.", text |-> <<>>]
    ELSE NoInfo

\* last: the event of the latest step (op), the session it came from, the
\* clickData and the current_clicked the click callback was called with
\* (before), the content of that list object when the click callback ended
\* (arg), whether the click repeats the click of the step before it
\* (twice), and what became of the callbacks: the click callback raised
\* (clickErr), the map callback ran (mapRan), raised (mapErr) and ran the
\* matching of places against points (matched).
NoEvent == [op |-> "none", session |-> 0, clickData |-> NoClick,
            before |-> None, arg |-> None, twice |-> FALSE,
            clickErr |-> FALSE, mapRan |-> FALSE, mapErr |-> FALSE,
            matched |-> FALSE]

\* The lists a request may carry as 'clicked-markers': any set of the ids
\* the clicks of the variant carry, and of the ids of its POI table.
ClickIds(v) ==
    {cd.customdata : cd \in {c \in ClickDataOf[v] : c.hasCustom}}
    \cup {poi_rows(v)[i].marker_id : i \in DOMAIN poi_rows(v)}

ToggleStatesOf ==
    [v \in Variants |->
        {Some(l) : l \in {x \in ListsUpTo(ClickIds(v), MaxClicked) : NoDup(x)}}]

InitOf(S) ==
    /\ variant \in Variants
    /\ env \in IF Cardinality(S) = 1 THEN Envs(variant) ELSE SharedEnvs(variant)
    /\ page = [s \in S |-> FALSE]
    /\ selection = [s \in S |-> None]
    /\ clicked = [s \in S |-> Some(<<>>)]
    /\ figure = [s \in S |-> Unrendered]
    /\ info = [s \in S |-> InitialInfo(variant)]
    /\ last = NoEvent
    /\ tables = loaded_tables(variant)

\* One browser session.
Init == InitOf({1})

\* One session whose 'clicked-markers' store holds any list when the page
\* opens: the callbacks take the list from the request.
InitCalls ==
    /\ variant \in Variants
    /\ env \in Envs(variant)
    /\ page = [s \in {1} |-> FALSE]
    /\ selection = [s \in {1} |-> None]
    /\ clicked \in [{1} -> ToggleStatesOf[variant]]
    /\ figure = [s \in {1} |-> Unrendered]
    /\ info = [s \in {1} |-> InitialInfo(variant)]
    /\ last = NoEvent
    /\ tables = loaded_tables(variant)

\* Two browser sessions served by one process.
InitShared == InitOf({1, 2})

\* One session of provinceszipped.py whose map callback is given a
\* 'province-data' with both the Province and the shapeName of every
\* feature, and any 'clicked-markers': the callback gets as far as its
\* markers.
InitMatch ==
    /\ variant = "provinceszipped"
    /\ env = [load |-> "ok", zWritable |-> TRUE, reReadable |-> TRUE,
              properties |-> {"Province", "shapeName"}]
    /\ page = [s \in {1} |-> FALSE]
    /\ selection = [s \in {1} |-> None]
    /\ clicked \in [{1} -> ToggleStatesOf[variant]]
    /\ figure = [s \in {1} |-> Unrendered]
    /\ info = [s \in {1} |-> InitialInfo(variant)]
    /\ last = NoEvent
    /\ tables = loaded_tables(variant)

\* One session of optimized-dash-app.py, ultraoptimized.py or
\* optimizedzipped2.py whose requests carry no 'clicked-markers' (None)
\* until a callback has returned one, with the page just opened or not
\* opened yet.
InitMissing ==
    /\ variant \in {"optimized-dash-app", "ultraoptimized", "optimizedzipped2"}
    /\ env = [load |-> "ok", zWritable |-> TRUE, reReadable |-> TRUE,
              properties |-> province_data_properties]
    /\ page \in [{1} -> BOOLEAN]
    /\ selection = [s \in {1} |-> None]
    /\ clicked = [s \in {1} |-> None]
    /\ figure = [s \in {1} |-> Unrendered]
    /\ info = [s \in {1} |-> InitialInfo(variant)]
    /\ last = NoEvent
    /\ tables = loaded_tables(variant)

\* The POI data a source file may hold, for the two loaders: the data of
\* the source, the data with one more entry whose Province is no province,
\* and (optimized.py, whose ids are literals) the data with one more entry
\* that repeats the marker_id of another POI.
ProgramData ==
    [v \in {"optimized", "optimized-dash-app"} |->
        IF v = "optimized"
        THEN {hardcoded_poi_coordinates,
              hardcoded_poi_coordinates \o
                  <<[Province |-> Narnia, Place |-> TheForks,
                     marker_id |-> Narnia \o <<"_">> \o TheForks]>>,
              hardcoded_poi_coordinates \o
                  <<[Province |-> Manitoba, Place |-> BanffNP,
                     marker_id |-> Alberta \o <<"_">> \o BanffNP]>>}
        ELSE {notable_places_data,
              notable_places_data \o
                  <<[Province |-> Narnia, Place |-> TheForks, name |-> 11]>>}]

\* the module-level POI table built at import from the data of the file
load_table(v, data) ==
    IF v = "optimized" THEN load_poi_data(data) ELSE notable_df_of(data)

\* One session of optimized.py or optimized-dash-app.py started on any of
\* the data above: the module has been imported and the tables are built.
InitData ==
    /\ variant \in DOMAIN ProgramData
    /\ env = [load |-> "ok", zWritable |-> TRUE, reReadable |-> TRUE,
              properties |-> province_data_properties]
    /\ page = [s \in {1} |-> FALSE]
    /\ selection = [s \in {1} |-> None]
    /\ clicked = [s \in {1} |-> Some(<<>>)]
    /\ figure = [s \in {1} |-> Unrendered]
    /\ info = [s \in {1} |-> InitialInfo(variant)]
    /\ last = NoEvent
    /\ \E data \in ProgramData[variant] :
          tables = [poi |-> load_table(variant, data), color |-> <<>>,
                    provinces |-> provinces]

\* A session opens the page: Dash calls every callback once, the click
\* callback with clickData None and the map callback with the initial
\* dropdown value.
PageLoad(s) ==
    /\ ~page[s]
    /\ ~module_raised(variant, env)
    /\ LET c == update_clicked_markers(variant, NoClick, clicked[store_of(s)])
           now == IF c.err THEN clicked[store_of(s)] ELSE c.ret
           m == update_map(variant, env, selection[store_of(s)], now, TRUE)
       IN  /\ page' = [page EXCEPT ![s] = TRUE]
           /\ clicked' = [clicked EXCEPT ![store_of(s)] = now]
           /\ info' = [info EXCEPT ![s] = IF c.err \/ c.info = NoInfo THEN @ ELSE c.info]
           /\ figure' = [figure EXCEPT ![s] = IF m.err THEN @ ELSE m.fig]
           /\ last' = [NoEvent EXCEPT !.op = "load", !.session = s,
                                     !.before = clicked[store_of(s)],
                                     !.arg = c.arg,
                                     !.clickErr = c.err,
                                     !.mapRan = TRUE, !.mapErr = m.err,
                                     !.matched = m.matched]
           /\ tables' = tables_after(variant, tables, selection[store_of(s)], now)
    /\ UNCHANGED <<variant, env, selection>>

\* Mutation of SelectionChanged: the change of the dropdown also empties
\* 'clicked-markers'.
SelectionChangedClearing(s) ==
    /\ page[s]
    /\ \E value \in DropdownValues :
        /\ value # selection[store_of(s)]
        /\ LET m == update_map(variant, env, value, Some(<<>>), FALSE) IN
           /\ selection' = [selection EXCEPT ![store_of(s)] = value]
           /\ clicked' = [clicked EXCEPT ![store_of(s)] = Some(<<>>)]
           /\ figure' = [figure EXCEPT ![s] = IF m.err THEN @ ELSE m.fig]
           /\ last' = [NoEvent EXCEPT !.op = "select", !.session = s,
                                     !.before = clicked[store_of(s)],
                                     !.arg = clicked[store_of(s)],
                                     !.mapRan = TRUE, !.mapErr = m.err,
                                     !.matched = m.matched]
           /\ tables' = tables_after(variant, tables, value, Some(<<>>))
    /\ UNCHANGED <<variant, env, page, info>>

\* The user changes the dropdown: the map callback runs.
SelectionChanged(s) ==
    /\ page[s]
    /\ \E value \in DropdownValues :
        /\ value # selection[store_of(s)]
        /\ LET m == update_map(variant, env, value, clicked[store_of(s)], FALSE) IN
           /\ selection' = [selection EXCEPT ![store_of(s)] = value]
           /\ figure' = [figure EXCEPT ![s] = IF m.err THEN @ ELSE m.fig]
           /\ last' = [NoEvent EXCEPT !.op = "select", !.session = s,
                                     !.before = clicked[store_of(s)],
                                     !.arg = clicked[store_of(s)],
                                     !.mapRan = TRUE, !.mapErr = m.err,
                                     !.matched = m.matched]
           /\ tables' = tables_after(variant, tables, value, clicked[store_of(s)])
    /\ UNCHANGED <<variant, env, page, clicked, info>>

\* The user clicks on the graph: the click callback runs and, where
\* 'clicked-markers' is an Input of the map callback, the map callback
\* runs on the value returned.
MarkerClicked(s) ==
    /\ page[s]
    /\ \E clickData \in ClickDatas(variant) :
        LET before == clicked[store_of(s)]
            c == update_clicked_markers(variant, clickData, before)
            now == IF c.err THEN before ELSE c.ret
            renders == ~c.err /\ clicked_markers_is_input(variant)
            m == update_map(variant, env, selection[store_of(s)], now, FALSE)
        IN  /\ Len(now.v) <= MaxClickedNow
            /\ clicked' = [clicked EXCEPT ![store_of(s)] = now]
            /\ info' = [info EXCEPT ![s] = IF c.err \/ c.info = NoInfo THEN @ ELSE c.info]
            /\ figure' = [figure EXCEPT ![s] = IF renders /\ ~m.err THEN m.fig ELSE @]
            /\ last' = [op |-> "click", session |-> s, clickData |-> clickData,
                        before |-> before, arg |-> c.arg,
                        twice |-> /\ last.op = "click" /\ last.session = s
                                  /\ last.clickData = clickData,
                        clickErr |-> c.err,
                        mapRan |-> renders, mapErr |-> renders /\ m.err,
                        matched |-> renders /\ m.matched]
            /\ tables' = IF renders
                         THEN tables_after(variant, tables, selection[store_of(s)], now)
                         ELSE tables
    /\ UNCHANGED <<variant, env, page, selection>>

Load == \E s \in Sessions : PageLoad(s)
Select == \E s \in Sessions : SelectionChanged(s)
Click == \E s \in Sessions : MarkerClicked(s)

Next == Load \/ Select \/ Click

Spec == Init /\ [][Next]_vars

SpecShared == InitShared /\ [][Next]_vars

SpecCalls == InitCalls /\ [][Next]_vars

SpecData == InitData /\ [][Next]_vars

SpecMatch == InitMatch /\ [][Next]_vars

SpecMissing == InitMissing /\ [][Next]_vars

---------------------------------------------------------------------------
(* Vocabulary of the properties.                                           *)

\* 'customdata' in point, for the point of a click
IsMarkerClick(clickData) == HasPoints(clickData) /\ clickData.hasCustom

\* the colors of a clicked and of an unclicked marker
HighlightColor(v) == IF v = "optimized-dash-app" THEN "#33cc33" ELSE "green"
DefaultColor(v) == IF v = "optimized-dash-app" THEN "#ff3333" ELSE "red"

\* the ids of the markers a figure shows
MarkerIds(fig) == {fig.markers[i].customdata : i \in DOMAIN fig.markers}

\* the members of a selection (None: nothing selected)
Selected(sel) == IF sel.none THEN {} ELSE Range(sel.v)

\* the ids of the POIs of a variant whose Province is in the set R
PoiIdsOf(v, R) ==
    {poi_rows(v)[i].marker_id : i \in {j \in DOMAIN poi_rows(v) : poi_rows(v)[j].Province \in R}}

\* every file could be read and every figure could be written
Works(e) == e.load = "ok" /\ e.zWritable /\ e.reReadable

\* the latest step ran the map callback of session s, which returned
Rendered(s) == last.session = s /\ last.mapRan /\ ~last.mapErr

---------------------------------------------------------------------------
(* C1 - C3: the click handler and the marker colors.                       *)

\* C1: in every variant the click handler toggles: after a click carrying
\* a marker id, the ToggleState is the one before the click without that id
\* when it held the id, and with that id added otherwise (so two clicks on
\* one marker from the empty state end in the empty state).
C1_HandlerToggles ==
    \A s \in Sessions :
        (last.op = "click" /\ last.session = s /\ IsMarkerClick(last.clickData))
        => LET m == last.clickData.customdata
               before == Range(last.before.v)
           IN  /\ ~last.clickErr
               /\ Range(clicked[s].v) = IF m \in before THEN before \ {m}
                                        ELSE before \cup {m}

\* C2: in optimized.py and optimized-dash-app.py two clicks in a row on one
\* marker m, from a duplicate-free ToggleState s, return a state equal to s
\* (the same ids, none of them twice), whether or not m is in s.
C2_DoubleToggleIdentity ==
    [][\A s \in Sessions :
        (/\ variant \in {"optimized", "optimized-dash-app"}
         /\ last'.op = "click" /\ last'.session = s /\ last'.twice
         /\ IsMarkerClick(last'.clickData)
         /\ NoDup(last.before.v))
        => /\ ~last.clickErr /\ ~last'.clickErr
           /\ Range(clicked'[s].v) = Range(last.before.v)
           /\ NoDup(clicked'[s].v)]_vars

\* C2, reached: optimized.py has answered two clicks in a row on a marker
\* that was in a ToggleState of two ids (removed, then added again).
C2_Witness ==
    /\ variant = "optimized"
    /\ last.op = "click" /\ last.twice /\ IsMarkerClick(last.clickData)
    /\ Len(clicked[1].v) = 2
    /\ In(last.clickData.customdata, clicked[1].v)

\* C3: in every variant the map callback draws each marker in the
\* highlighted color if its id is in the ToggleState passed to it, and in
\* the default color otherwise.
C3_ColorIffMember ==
    \A s \in Sessions :
        Rendered(s)
        => \A i \in DOMAIN figure[s].markers :
              figure[s].markers[i].color =
                  IF In(figure[s].markers[i].customdata, clicked[s].v)
                  THEN HighlightColor(variant) ELSE DefaultColor(variant)

---------------------------------------------------------------------------
(* C4 - C6: the markers of a selection.                                    *)

\* C4 as stated: in every variant, while the selection is empty (None or
\* an empty list) the figure shows no POI marker, whatever the ToggleState.
C4_EmptySelectionNoMarker ==
    \A s \in Sessions :
        (page[s] /\ ~Truthy(selection[s])) => figure[s].markers = <<>>

\* C4, amended: in every variant except redtogreen.py, while the selection
\* is empty (None or an empty list) the figure shows no POI marker,
\* whatever the ToggleState.
C4_EmptySelectionNoMarkerButRedToGreen ==
    \A s \in Sessions :
        (variant # "redtogreen" /\ page[s] /\ ~Truthy(selection[s]))
        => figure[s].markers = <<>>

\* C4, reached: optimized.py has drawn the map for a selection emptied
\* while the ToggleState held the id of a POI.
C4_Witness ==
    /\ variant = "optimized" /\ load_success(env)
    /\ last.op = "select" /\ Rendered(1)
    /\ selection[1] = Some(<<>>)
    /\ In(hardcoded_poi_coordinates[1].marker_id, clicked[1].v)
    /\ figure[1].kind = "map"

\* C5 as stated: in every variant, when the selection grows from R1 to R2
\* (R1 a subset of R2), every marker drawn for R1 is drawn for R2.
C5_Monotone ==
    [][\A s \in Sessions :
        (/\ Rendered(s)
         /\ last'.op = "select" /\ last'.session = s /\ ~last'.mapErr
         /\ Selected(selection[s]) \subseteq Selected(selection'[s]))
        => MarkerIds(figure[s]) \subseteq MarkerIds(figure'[s])]_vars

\* C5, amended: when the selection grows from R1 to R2 (R1 a subset of
\* R2), every marker drawn for R1 is drawn for R2: in every variant for a
\* non-empty R1, and in every variant except redtogreen.py for an empty R1.
C5_MonotoneFromNonEmpty ==
    [][\A s \in Sessions :
        (/\ Rendered(s)
         /\ last'.op = "select" /\ last'.session = s /\ ~last'.mapErr
         /\ Selected(selection[s]) \subseteq Selected(selection'[s])
         /\ (variant = "redtogreen" => Truthy(selection[s])))
        => MarkerIds(figure[s]) \subseteq MarkerIds(figure'[s])]_vars

\* C5, reached: optimizedzipped2.py has drawn the markers of two provinces
\* for a selection of two names.
C5_Witness ==
    /\ variant = "optimizedzipped2"
    /\ last.op = "select" /\ Rendered(1)
    /\ Len(selection[1].v) = 2
    /\ Len(figure[1].markers) = 2

\* C6: where the data could be loaded, for every non-empty selection the
\* markers of the figure are exactly the POIs of the variant whose
\* Province is in the selection: none is missing, none of another province
\* is shown.
C6_ExactlySelectedPois ==
    \A s \in Sessions :
        (Works(env) /\ page[s] /\ Truthy(selection[s]))
        => MarkerIds(figure[s]) = PoiIdsOf(variant, Selected(selection[s]))

---------------------------------------------------------------------------
(* C7 - C10: independence of the two states, unknown ids and names,        *)
(* sessions.                                                               *)

\* the Province of the POI of a variant that has the marker id
ProvincesOfId(v, id) ==
    {poi_rows(v)[i].Province : i \in {j \in DOMAIN poi_rows(v) : poi_rows(v)[j].marker_id = id}}

\* the step is a change of the dropdown of session s that deselects the
\* Province of the marker which the click of the step before toggled while
\* it was drawn for that Province
DeselectsToggled(s) ==
    /\ last.op = "click" /\ last.session = s /\ IsMarkerClick(last.clickData)
    /\ last.clickData.customdata \in MarkerIds(figure[s])
    /\ last'.op = "select" /\ last'.session = s /\ ~last'.mapErr
    /\ \E p \in ProvincesOfId(variant, last.clickData.customdata) :
          p \in Selected(selection[s]) /\ p \notin Selected(selection'[s])

\* C7 as stated: a marker click leaves the selection unchanged and a
\* selection change leaves the ToggleState unchanged; a marker toggled
\* while its Province was selected stays in the ToggleState when that
\* Province is deselected, and is then no longer among the markers shown.
C7_Independent ==
    [][\A s \in Sessions :
        /\ (last'.op = "click" /\ last'.session = s) => selection'[s] = selection[s]
        /\ (last'.op = "select" /\ last'.session = s) => clicked'[s] = clicked[s]
        /\ DeselectsToggled(s)
           => last.clickData.customdata \notin MarkerIds(figure'[s])]_vars

\* C7, amended: a marker click leaves the selection unchanged and a
\* selection change leaves the ToggleState unchanged; a marker toggled
\* while its Province was selected stays in the ToggleState when that
\* Province is deselected, and is then no longer among the markers shown,
\* except in redtogreen.py when the selection has become empty.
C7_IndependentButRedToGreen ==
    [][\A s \in Sessions :
        /\ (last'.op = "click" /\ last'.session = s) => selection'[s] = selection[s]
        /\ (last'.op = "select" /\ last'.session = s) => clicked'[s] = clicked[s]
        /\ (DeselectsToggled(s)
            /\ ~(variant = "redtogreen" /\ ~Truthy(selection'[s])))
           => last.clickData.customdata \notin MarkerIds(figure'[s])]_vars

\* C7, reached: in optimized-dash-app.py the id of a POI of Alberta is in
\* the ToggleState, and the map has been drawn for a selection without
\* Alberta.
C7_Witness ==
    /\ variant = "optimized-dash-app"
    /\ last.op = "select" /\ Rendered(1)
    /\ In(notable_df[1].marker_id, clicked[1].v)
    /\ selection[1] = Some(<<Manitoba>>)
    /\ notable_df[1].marker_id \notin MarkerIds(figure[1])

\* C8: a click carrying the id of no POI raises no error, the ToggleState
\* returned contains that id, and no marker shown changes its color.
C8_UnknownIdAdded ==
    [][\A s \in Sessions :
        (/\ last'.op = "click" /\ last'.session = s
         /\ last'.clickData = MarkerPoint(NonexistentId, <<>>)
         /\ ~In(NonexistentId, clicked[s].v))
        => /\ ~last'.clickErr
           /\ In(NonexistentId, clicked'[s].v)
           /\ figure'[s] = figure[s]]_vars

\* C9: where the data could be loaded, a selection with a name of no
\* province raises no error in the map callback of any variant, and the
\* markers shown are those of the POIs of the known provinces selected.
C9_UnknownNameTolerated ==
    \A s \in Sessions :
        (/\ Works(env)
         /\ last.op = "select" /\ last.session = s
         /\ In(Narnia, selection[s].v))
        => /\ ~last.mapErr
           /\ MarkerIds(figure[s]) = PoiIdsOf(variant, Selected(selection[s]))

\* C10: with two sessions, a step of one session leaves the selection,
\* the ToggleState, the figure and the text of the other session as they
\* were; its click callback receives the ToggleState of its own session and
\* its map callback draws from the selection and ToggleState of its own.
C10_SessionsIsolated ==
    [][\A s \in Sessions :
        last'.session = s
        => /\ \A t \in Sessions \ {s} :
                 /\ selection'[t] = selection[t]
                 /\ clicked'[t] = clicked[t]
                 /\ figure'[t] = figure[t]
                 /\ info'[t] = info[t]
           /\ last'.before = clicked[s]
           /\ (last'.op = "click" /\ ~last'.clickErr)
              => clicked'[s] = update_clicked_markers(variant, last'.clickData,
                                                      clicked[s]).ret
           /\ (last'.mapRan /\ ~last'.mapErr)
              => figure'[s] = update_map(variant, env, selection'[s], clicked'[s],
                                         last'.op = "load").fig]_vars

\* C10, reached: both sessions have clicked, the second one last, and their
\* ToggleStates differ.
C10_Witness ==
    /\ Cardinality(Sessions) = 2
    /\ last.op = "click" /\ last.session = 2
    /\ clicked[1].v # <<>> /\ clicked[2].v # <<>>
    /\ clicked[1] # clicked[2]
    /\ selection[1] # selection[2]

---------------------------------------------------------------------------
(* C11 - C12: rendering after a click, and the variants side by side.      *)

\* the pairs <<id, highlighted>> of the markers a figure of variant v shows
MarkerColors(v, fig) ==
    {<<fig.markers[i].customdata, fig.markers[i].color = HighlightColor(v)>> :
        i \in DOMAIN fig.markers}

\* the pairs <<id, id in the ToggleState>> of the markers a figure shows
ColorsFor(fig, toggled) ==
    {<<fig.markers[i].customdata, In(fig.markers[i].customdata, toggled.v)>> :
        i \in DOMAIN fig.markers}

\* C11: in every variant, where the data could be loaded, a click on a
\* marker that is shown and that changes the ToggleState runs the map
\* callback, and right after the click the colors of the markers shown are
\* those of the new ToggleState.
C11_RerenderAfterClick ==
    \A s \in Sessions :
        (/\ Works(env)
         /\ last.op = "click" /\ last.session = s /\ ~last.clickErr
         /\ IsMarkerClick(last.clickData)
         /\ last.clickData.customdata \in MarkerIds(figure[s])
         /\ clicked[s] # last.before)
        => /\ last.mapRan /\ ~last.mapErr
           /\ MarkerColors(variant, figure[s]) = ColorsFor(figure[s], clicked[s])

\* C12: all variants behave alike.  Whatever state the running variant has
\* reached, every variant w over the same POI collection, given the event of
\* the latest step in the state it was taken from, ends with the same ids in
\* the ToggleState and draws the same markers in the same (highlighted or
\* default) colors; as all variants start in the same state, they then agree
\* after every sequence of events.
C12_VariantsAgree ==
    \A s \in Sessions : \A w \in Variants :
        (Works(env) /\ poi_rows(w) = poi_rows(variant))
        => /\ (last.op = "click" /\ last.session = s /\ ~last.clickErr)
              => LET c == update_clicked_markers(w, last.clickData, last.before)
                 IN  ~c.err /\ Range(c.ret.v) = Range(clicked[s].v)
           /\ Rendered(s)
              => LET m == update_map(w, env, selection[s], clicked[s],
                                     last.op = "load")
                 IN  /\ ~m.err
                     /\ MarkerColors(w, m.fig) = MarkerColors(variant, figure[s])

---------------------------------------------------------------------------
(* C13 - C14: the marker ids.                                              *)

\* the marker_id column of a table
IdsOf(rows) == [i \in DOMAIN rows |-> rows[i].marker_id]

\* the selections of provinces of the tables
KnownSelections == {x \in ListsUpTo(Range(provinces), MaxSelected) : NoDup(x)}

\* C13: in every variant no two POIs of the POI table carry the same
\* marker id, also when they share a place name (provinceszipped.py: no two
\* rows of the table built for a selection); and no two markers of a figure
\* carry the same id.
C13_MarkerIdsUnique ==
    /\ \A v \in Variants : NoDup(IdsOf(poi_rows(v)))
    /\ \A sel \in KnownSelections : NoDup(IdsOf(provinceszipped_marker_subset(sel)))
    /\ \A s \in Sessions :
          NoDup([i \in DOMAIN figure[s].markers |-> figure[s].markers[i].customdata])

\* C13, reached: ultraoptimized.py shows the markers of two provinces, and
\* the table of provinceszipped.py has two rows of one place.
C13_Witness ==
    /\ variant = "ultraoptimized"
    /\ Rendered(1)
    /\ Len(figure[1].markers) = 2
    /\ \E i, j \in DOMAIN poi_rows("provinceszipped") :
          /\ i # j
          /\ poi_rows("provinceszipped")[i].Place = poi_rows("provinceszipped")[j].Place

\* The rows for which the map code of a variant builds a marker when the
\* provinces of sel are selected: the POI (its Province, its Place and its
\* row in the table of the variant; provinceszipped.py: its row in
\* points_gdf) and the marker id the code gives it.
marker_rows(v, sel) ==
    IF v = "provinceszipped"
    THEN LET rows == provinceszipped_marker_subset(sel) IN
         [i \in DOMAIN rows |->
            [poi |-> <<rows[i].Province, rows[i].Place, rows[i].point>>,
             marker_id |-> rows[i].marker_id]]
    ELSE LET shown == SelectSeq([k \in DOMAIN poi_rows(v) |-> k],
                                LAMBDA k : In(poi_rows(v)[k].Province, sel))
         IN  [i \in DOMAIN shown |->
                [poi |-> <<poi_rows(v)[shown[i]].Province,
                           poi_rows(v)[shown[i]].Place, shown[i]>>,
                 marker_id |-> poi_rows(v)[shown[i]].marker_id]]

\* C14: the marker id of a POI depends on the POI alone.  Whatever the
\* selection a session has made, the marker code of the variant gives a POI
\* under that selection the id it gives it under every other selection, and
\* an id designates one POI under both (stated of the ids the marker code
\* of the map callback builds for a selection).
C14_IdOfPoiFixed ==
    \A s \in Sessions :
        (page[s] /\ Truthy(selection[s]) /\ selection[s].v \in KnownSelections)
        => \A sel \in KnownSelections :
              LET r1 == marker_rows(variant, selection[s].v)
                  r2 == marker_rows(variant, sel)
              IN  \A i \in DOMAIN r1 : \A j \in DOMAIN r2 :
                    (r1[i].poi = r2[j].poi) <=> (r1[i].marker_id = r2[j].marker_id)

---------------------------------------------------------------------------
(* C15 - C17: the static tables.                                           *)

\* C15: after any sequence of callbacks of any sessions the module-level
\* POI table and province table are what they were at load; the colors of
\* a render of optimized.py are not a column of the shared poi_df.
C15_TablesReadOnly ==
    /\ tables = loaded_tables(variant)
    /\ tables.color = <<>>

\* C15, reached: optimized.py has drawn colored markers for both sessions,
\* one of them green.
C15_Witness ==
    /\ variant = "optimized"
    /\ Cardinality(Sessions) = 2
    /\ figure[1].markers # <<>> /\ figure[2].markers # <<>>
    /\ \E i \in DOMAIN figure[2].markers : figure[2].markers[i].color = "green"

\* the regions a POI of the variant may refer to: province_centroids
\* (the dropdown options) where the data is inline, the provinces loaded
RegionsOf(v) ==
    IF v \in {"optimized-dash-app", "ultraoptimized"} THEN Range(province_centroids)
    ELSE Range(provinces)

\* a table has a POI of no region
Orphaned(v, rows) == \E i \in DOMAIN rows : rows[i].Province \notin RegionsOf(v)

\* C16: in optimized-dash-app.py and ultraoptimized.py the Province of
\* every POI of the table is a key of province_centroids, and so is the
\* Province of every POI whose marker a figure shows.
C16_NoOrphanPoi ==
    variant \in {"optimized-dash-app", "ultraoptimized"}
    => /\ ~Orphaned(variant, poi_rows(variant))
       /\ ~Orphaned(variant, poi_df)
       /\ \A s \in Sessions :
             MarkerIds(figure[s]) \subseteq PoiIdsOf(variant, Range(province_centroids))

\* C16, reached: optimized-dash-app.py shows the markers of its two
\* provinces after a click.
C16_Witness ==
    /\ variant = "optimized-dash-app"
    /\ last.op = "click" /\ Rendered(1)
    /\ Len(figure[1].markers) = 2
    /\ {figure[1].markers[i].text : i \in DOMAIN figure[1].markers} = {BanffNP, TheForks}

\* C17: a POI table with an orphaned POI or with two POIs of one marker id
\* makes loading fail: no page is served from it and no callback draws
\* from it.
C17_IntegrityErrorsFatal ==
    (Orphaned(variant, poi_df) \/ ~NoDup(IdsOf(poi_df)))
    => \A s \in Sessions : ~page[s] /\ figure[s] = Unrendered /\ last.op = "none"

---------------------------------------------------------------------------
(* C18 - C19: the matching of places against points in provinceszipped.py. *)

\* the rows of points_gdf whose name contains the place name N, whatever
\* the case of the letters
NamedLike(N) ==
    {k \in DOMAIN points_gdf :
        /\ ~points_gdf[k].name.none
        /\ Contains(LowerStr(points_gdf[k].name.v), LowerStr(N))}

\* the markers of a figure drawn for province P and place N
MarkersOf(fig, P, N) ==
    {i \in DOMAIN fig.markers :
        LET parts == Split(fig.markers[i].customdata)
        IN  Len(parts) = 3 /\ parts[1] = P /\ parts[2] = N}

\* C18: in the map callback of provinceszipped.py every marker of province
\* P and place N comes from a point whose name contains N, whatever the
\* case, and which lies within P: there are no more such markers than such
\* points, and none when the points named like N all lie elsewhere.
C18_BothTestsNeeded ==
    \A s \in Sessions :
        (/\ variant = "provinceszipped"
         /\ last.op = "select" /\ Rendered(s) /\ Truthy(selection[s]))
        => /\ \A i \in DOMAIN figure[s].markers :
                 \E P \in Range(selection[s].v) : \E N \in Range(province_to_places(P)) :
                    i \in MarkersOf(figure[s], P, N)
           /\ \A P \in Range(selection[s].v) : \A N \in Range(province_to_places(P)) :
                 Cardinality(MarkersOf(figure[s], P, N))
                    <= Cardinality({k \in NamedLike(N) : points_gdf[k].within = P})

\* C18, reached: the map drawn for Manitoba has the one marker of the point
\* named like 'The Forks' that lies in Manitoba, while another point of that
\* name lies in Alberta and a point has no name.
C18_Witness ==
    /\ variant = "provinceszipped"
    /\ last.op = "select" /\ Rendered(1) /\ last.matched
    /\ selection[1] = Some(<<Manitoba>>)
    /\ Len(figure[1].markers) = 1
    /\ \E k \in NamedLike(TheForks) : points_gdf[k].within = Alberta
    /\ \E k \in DOMAIN points_gdf : points_gdf[k].name.none

\* C19: the matching of places against points in provinceszipped.py is run
\* once when the data is prepared, before any event of the user is handled,
\* and no change of the selection and no click runs it.
C19_MatchingOffline ==
    variant = "provinceszipped"
    => /\ last.op = "load" => last.matched
       /\ last.op \in {"select", "click"} => ~last.matched

---------------------------------------------------------------------------
(* C20: the click handler and the list it receives.                        *)

\* C20: in every variant the click handler, when it adds an id and when it
\* removes one, returns a new list and leaves the list object it received
\* as current_clicked as it was.
C20_ArgumentUnmodified ==
    \A s \in Sessions :
        (last.op = "click" /\ last.session = s /\ ~last.clickErr
         /\ IsMarkerClick(last.clickData))
        => last.arg = last.before

---------------------------------------------------------------------------
(* C21 - C23: what a click stores and what it recolors.                    *)

\* the marker of a figure that carries the id
IsHighlighted(v, fig, id) ==
    \E i \in DOMAIN fig.markers :
        fig.markers[i].customdata = id /\ fig.markers[i].color = HighlightColor(v)

\* C21: in every variant, where the data could be loaded, one click on a
\* marker that is shown, from the empty ToggleState, leaves exactly the id
\* of that marker in the ToggleState, and the render that follows the click
\* draws the marker highlighted.
C21_FullIdStored ==
    \A s \in Sessions :
        (/\ Works(env)
         /\ last.op = "click" /\ last.session = s
         /\ IsMarkerClick(last.clickData)
         /\ last.clickData.customdata \in MarkerIds(figure[s])
         /\ last.before = Some(<<>>))
        => /\ ~last.clickErr
           /\ clicked[s] = Some(<<last.clickData.customdata>>)
           /\ last.mapRan
              => ~last.mapErr
                 /\ IsHighlighted(variant, figure[s], last.clickData.customdata)

\* C22: in every variant, from the empty state, the list kept in
\* 'clicked-markers' holds no id more than once, whatever the clicks.
C22_NoIdTwice ==
    \A s \in Sessions : ~clicked[s].none /\ NoDup(clicked[s].v)

\* C22, reached: optimizedzipped.py, which never removes, has answered a
\* second click in a row on a marker and holds its id once, beside another.
C22_Witness ==
    /\ variant = "optimizedzipped"
    /\ last.op = "click" /\ last.twice /\ IsMarkerClick(last.clickData)
    /\ Len(clicked[1].v) = 2
    /\ clicked[1].v[1] = last.clickData.customdata

\* the pairs <<id, color>> of the markers of a figure other than those of
\* the id m
OtherMarkers(fig, m) ==
    {<<fig.markers[i].customdata, fig.markers[i].color>> :
        i \in {j \in DOMAIN fig.markers : fig.markers[j].customdata # m}}

\* C23: a click on a marker m, the selection being as it was, leaves every
\* other marker shown in the color it had, and leaves the set of markers
\* shown as it was.
C23_OnlyClickedRecolored ==
    [][\A s \in Sessions :
        (last'.op = "click" /\ last'.session = s /\ IsMarkerClick(last'.clickData))
        => /\ MarkerIds(figure'[s]) = MarkerIds(figure[s])
           /\ OtherMarkers(figure'[s], last'.clickData.customdata)
                 = OtherMarkers(figure[s], last'.clickData.customdata)]_vars

\* C23, reached: ultraoptimized.py has redrawn two markers after a click on
\* the second: it is green, the first is red as before.
C23_Witness ==
    /\ variant = "ultraoptimized"
    /\ last.op = "click" /\ Rendered(1)
    /\ Len(figure[1].markers) = 2
    /\ figure[1].markers[2].customdata = last.clickData.customdata
    /\ figure[1].markers[2].color = "green"
    /\ figure[1].markers[1].color = "red"

---------------------------------------------------------------------------
(* C24: the style of the provinces.                                        *)

\* the colors of a selected and of an unselected province label
SelectedColor(v) == IF v = "optimized-dash-app" THEN "#3366cc" ELSE "blue"
UnselectedColor(v) == IF v = "optimized-dash-app" THEN "#cccccc" ELSE "lightgray"

\* C24: in optimized-dash-app.py and ultraoptimized.py the figure styles
\* every province of province_centroids, in the highlighted style (blue or
\* #3366cc, opacity 0.8) if the province is in the selection and in the
\* dimmed style otherwise (all of them when nothing is selected), whatever
\* the ToggleState.
C24_HighlightedIffSelected ==
    \A s \in Sessions :
        (variant \in {"optimized-dash-app", "ultraoptimized"} /\ page[s])
        => /\ [i \in DOMAIN figure[s].regions |-> figure[s].regions[i].Province]
                 = province_centroids
           /\ \A i \in DOMAIN figure[s].regions :
                 LET r == figure[s].regions[i] IN
                 IF r.Province \in Selected(selection[s])
                 THEN r.color = SelectedColor(variant) /\ r.opacity = "0.8"
                 ELSE r.color = UnselectedColor(variant) /\ r.opacity = "0.5"

\* C24, reached: optimized-dash-app.py shows Manitoba highlighted and
\* Alberta dimmed while the ToggleState holds an id of Alberta.
C24_Witness ==
    /\ variant = "optimized-dash-app"
    /\ selection[1] = Some(<<Manitoba>>)
    /\ In(notable_df[1].marker_id, clicked[1].v)
    /\ \E i, j \in DOMAIN figure[1].regions :
          /\ figure[1].regions[i].Province = Manitoba
          /\ figure[1].regions[i].color = "#3366cc"
          /\ figure[1].regions[j].Province = Alberta
          /\ figure[1].regions[j].color = "#cccccc"

---------------------------------------------------------------------------
(* C25: the parity of the clicks.                                          *)

\* the variants whose click handler removes an id on a second click
RemovalVariants ==
    {"optimized-dash-app", "optimized", "optimizedzipped2", "ultraoptimized"}

\* the ids a ToggleState holds (None: none)
Toggled(state) == IF state.none THEN {} ELSE Range(state.v)

\* C25: in the variants with a removal branch an id is in the ToggleState
\* exactly when it was clicked an odd number of times since the empty
\* state, whatever the other clicks and their order.  The state starts
\* empty, so this is the induction step: a step changes the membership of
\* an id in the ToggleState of a session if and only if the step is a click
\* of that session carrying this id.
C25_ClickParity ==
    [][(variant \in RemovalVariants)
       => (\A s \in Sessions : \A x \in ClickIds(variant) :
             ((x \in Toggled(clicked'[s])) # (x \in Toggled(clicked[s])))
             <=> (last'.op = "click" /\ last'.session = s
                  /\ IsMarkerClick(last'.clickData)
                  /\ last'.clickData.customdata = x))]_vars

\* C25, reached: ultraoptimized.py after the clicks a, b, a holds b alone.
C25_Witness ==
    /\ variant = "ultraoptimized"
    /\ last.op = "click" /\ IsMarkerClick(last.clickData)
    /\ Len(last.before.v) = 2
    /\ last.before.v[1] = last.clickData.customdata
    /\ clicked[1] = Some(<<last.before.v[2]>>)

---------------------------------------------------------------------------
(* C27 - C28: loading the provinces.                                       *)

\* C27: optimizedzipped.py, when the province GeoJSON cannot be extracted
\* or cannot be parsed, finishes its module-level code without raising,
\* with a province table that has a Province column and a dropdown without
\* options, and update_map can be called.
C27_FallbackLoads ==
    (variant = "optimizedzipped" /\ env.load \in {"failed", "invalid"})
    => /\ ~optimizedzipped_module(env).err
       /\ ProvinceColumn \in optimizedzipped_module(env).gdf.columns
       /\ optimizedzipped_module(env).options = {}
       /\ ~update_map(variant, env, None, Some(<<>>), TRUE).err

\* C28: optimizedzipped2.py finishes its module-level code with a province
\* table that has a Province column for every outcome of the extraction
\* and of the parsing; when the extraction failed or the loaded table is
\* empty the table is the fallback table, and the dropdown offers the
\* Province of every POI.
C28_AlwaysProvinceColumn ==
    variant = "optimizedzipped2"
    => LET m == optimizedzipped2_module(env) IN
       /\ ~m.err
       /\ ProvinceColumn \in m.gdf.columns
       /\ (env.load \in {"failed", "invalid", "empty"}
           => /\ m.gdf = fallback_gdf
              /\ \A i \in DOMAIN notable_df : notable_df[i].Province \in m.options)

---------------------------------------------------------------------------
(* C26: events without a marker.                                           *)

\* C26: in every variant a call of the click handler whose clickData is
\* None, has no 'points', or whose first point has no 'customdata' leaves
\* the ToggleState as it was: the same ids in the same order.
C26_NoMarkerNoChange ==
    \A s \in Sessions :
        (/\ last.op \in {"load", "click"} /\ last.session = s
         /\ ~IsMarkerClick(last.clickData))
        => /\ ~last.clickErr
           /\ clicked[s] = last.before

\* C26, reached: redtogreen.py holds two ids and is handed a clickData
\* without 'points'.
C26_Witness ==
    /\ variant = "redtogreen"
    /\ last.op = "click" /\ last.clickData = NoPoints
    /\ Len(clicked[1].v) = 2

---------------------------------------------------------------------------
(* C29: a missing ToggleState.                                             *)

\* C29: the click handlers of optimized-dash-app.py, ultraoptimized.py and
\* optimizedzipped2.py, called with None as the stored ToggleState, do not
\* raise and return a list, whatever the click event.
C29_MissingStateIsEmpty ==
    \A s \in Sessions :
        (/\ variant \in {"optimized-dash-app", "ultraoptimized", "optimizedzipped2"}
         /\ last.op \in {"load", "click"} /\ last.session = s
         /\ last.before.none)
        => /\ ~last.clickErr
           /\ ~clicked[s].none

---------------------------------------------------------------------------
(* C30: the 'clicked-info' text of optimized-dash-app.py.                  *)

\* C30: what update_clicked_markers of optimized-dash-app.py returns as
\* 'clicked-info' agrees with what it returns as ToggleState.  With a
\* non-empty ToggleState the text is 'Selected places: ' and the second
\* '_'-separated part of every id, in list order; 'Deselected place: ' is
\* returned only by the click that removed the last id, and the prompt
\* only for an empty ToggleState when no point was clicked.
C30_InfoAgreesWithState ==
    \A s \in Sessions :
        (/\ variant = "optimized-dash-app"
         /\ last.op \in {"load", "click"} /\ last.session = s)
        => LET ids == clicked[s].v IN
           /\ ids # <<>>
              => /\ \A i \in DOMAIN ids : Len(Split(ids[i])) >= 2
                 /\ info[s] = [kind |-> "Selected places: ",
                               text |-> Join([i \in DOMAIN ids |-> Split(ids[i])[2]])]
           /\ info[s].kind = "Deselected place: "
              => /\ ids = <<>>
                 /\ IsMarkerClick(last.clickData)
                 /\ last.before.v = <<last.clickData.customdata>>
                 /\ info[s].text = last.clickData.text
           /\ info[s].kind = "Click on markers to see more information."
              => ids = <<>> /\ ~HasPoints(last.clickData)

\* C30, reached: a second click on one of two selected places leaves the
\* other, and the text names that place alone.
C30_Witness ==
    /\ variant = "optimized-dash-app"
    /\ last.op = "click" /\ IsMarkerClick(last.clickData)
    /\ Len(last.before.v) = 2
    /\ In(last.clickData.customdata, last.before.v)
    /\ Len(clicked[1].v) = 1
    /\ info[1] = [kind |-> "Selected places: ", text |-> Split(clicked[1].v[1])[2]]

====
